---- MODULE Spec2Model ----
(***************************************************************************)
(* State-machine model of smaug/db/sqlalchemy/api.py: the authorization    *)
(* gates, the soft-delete query builder, the entity repositories, the      *)
(* Plan/Resource repository with its transactions, and the lazily created  *)
(* engine facade.                                                          *)
(*                                                                         *)
(* A call is run by a thread.  A thread is "idle", then inside a call (pc  *)
(* names the next statement that touches the store), then "done" holding   *)
(* what the call returned or raised, then idle again.  Code between two    *)
(* store accesses is local to the thread and is executed together with the *)
(* access that follows it.  A transaction (with session.begin()) buffers   *)
(* its writes in the thread (pend_plans, pend_res), applies them at commit; *)
(* a rollback drops them.                                                  *)
(***************************************************************************)
EXTENDS Integers, Sequences, FiniteSets, TLC

(***************************************************************************)
(* Bounds                                                                  *)
(***************************************************************************)
\* rows the resources table can hold
MaxRes == 3
\* readings of timeutils.utcnow() that differ
MaxClock == 2
\* DBDeadlock failures the storage backend raises during one call
MaxDeadlocks == 1
\* rows the tables of Service .. ScheduledOperationLog hold together
MaxEntityRows == 1
\* calls of the Plan repository that pass their wrappers and go on to write
MaxCalls == 4

\* python None, for an argument that is a string otherwise
None == "None"
\* values python's `or` skips
Falsy == {None, ""}

\* one caller of the Plan repository, two callers that race on one Plan,
\* one caller of the repositories of all the entities, and one caller that
\* acts for the admin and for a user of project A in turn
Caller == "t1"
Racers == {"r1", "r2"}
EntityCaller == "e1"
Tenant == "x1"
Threads == {Caller, EntityCaller, Tenant} \cup Racers
FacadeThreads == {"f1", "f2", "f3"}

PlanIds == {"p1", "p2"}
Projects == {"A", "B"}
EntityIds == {"e1"}
Vals == {"v0", "v1"}
\* the value a row is created with
CreateVals == {"v0"}
\* resource lists a caller passes: each element is the resource's 'id'
ResourceLists == {<<>>, <<"ra", "rb">>}
\* the values plan_create is called with: 'id' (None when the caller gives
\* none), 'project_id' and 'resources'
CreateValues ==
    {[id |-> "p1", project_id |-> "A", resources |-> <<"ra">>],
     [id |-> "p2", project_id |-> "B", resources |-> <<>>],
     [id |-> None, project_id |-> "A", resources |-> <<>>]}

Kinds == {"Service", "Trigger", "ScheduledOperation",
          "ScheduledOperationState", "ScheduledOperationLog"}
\* the model classes get_by_id is called with
Models == Kinds \cup {"Plan", "Resource"}
\* a key _GET_METHODS does not hold
Absent == "Absent"


(***************************************************************************)
(* Request contexts                                                        *)
(***************************************************************************)
Context(a, u, p, rd) ==
    [present |-> TRUE, is_admin |-> a, user_id |-> u, project_id |-> p,
     read_deleted |-> rd]

\* a null context
NoContext ==
    [present |-> FALSE, is_admin |-> FALSE, user_id |-> "", project_id |-> "",
     read_deleted |-> "no"]

ReadDeleted == {"no", "yes", "only", "bogus"}

Contexts ==
    {NoContext}
    \cup {Context(TRUE, "admin", "A", rd) : rd \in ReadDeleted}
    \cup {Context(FALSE, "u1", "A", rd) : rd \in {"no", "only"}}
    \cup {Context(FALSE, "u2", "B", "no"),
          Context(FALSE, "", "A", "no"),
          Context(FALSE, "u1", "", "no")}

\* the contexts the Plan repository is called with
PlanContexts ==
    {Context(TRUE, "admin", "A", "no"),
     Context(TRUE, "admin", "A", "yes"),
     Context(TRUE, "admin", "A", "only"),
     Context(FALSE, "u1", "A", "no"),
     Context(FALSE, "", "A", "no"),
     Context(FALSE, "u1", "", "no")}

\* what a thread calls the Plan repository with: the racers share one
\* admin context and one Plan
ContextsOf(t) ==
    IF t = Caller THEN PlanContexts
    ELSE IF t = EntityCaller
    THEN {NoContext,
          Context(TRUE, "admin", "A", "no"), Context(TRUE, "admin", "A", "only"),
          Context(TRUE, "admin", "A", "bogus"),
          Context(FALSE, "u1", "A", "no"), Context(FALSE, "u1", "", "no")}
    ELSE IF t = Tenant
    THEN {Context(TRUE, "admin", "A", "no")}
         \cup {Context(FALSE, "u1", "A", rd) : rd \in {"no", "yes", "only"}}
    ELSE {Context(TRUE, "admin", "A", "no")}
PlanIdsOf(t) == IF t \in {Caller, Tenant} THEN PlanIds ELSE {"p1"}
CreateValuesOf(t) ==
    IF t = Caller THEN {v \in CreateValues : v.id # None}
    ELSE IF t = EntityCaller THEN {v \in CreateValues : v.project_id = "A"}
    ELSE IF t = Tenant
    THEN {[id |-> "p1", project_id |-> "A", resources |-> <<"ra">>],
          [id |-> "p2", project_id |-> "B", resources |-> <<"rb">>]}
    ELSE {[id |-> "p1", project_id |-> "A", resources |-> <<"ra">>]}

(***************************************************************************)
(* Variables                                                               *)
(***************************************************************************)
VARIABLES
    entities,   \* rows of Service, Trigger, ScheduledOperation, ...State, ...Log
    plans,      \* rows of the plans table
    resources,  \* rows of the resources table, in insertion order
    clock,      \* the last value timeutils.utcnow() returned
    calls,      \* calls of the Plan repository that went on to write, so far
    th,         \* the threads calling the repository
    FACADE,     \* _FACADE: 0 for None, else the number of the EngineFacade instance
    LOCK,       \* holder of _LOCK
    built,      \* EngineFacade instances constructed so far
    first,      \* the first thread that entered `with _LOCK`
    builder,    \* the threads that constructed an EngineFacade
    fth,        \* the threads calling get_engine / get_session / dispose_engine
    mq,         \* the last call of model_query on its own, and what it gave
    _GET_METHODS \* the cache of get_by_id: model class -> what was stored for it

store == <<entities, plans, resources>>
facade_vars == <<FACADE, LOCK, built, first, builder, fth, mq, _GET_METHODS>>
vars == <<entities, plans, resources, clock, calls, th, FACADE, LOCK, built,
         first, builder, fth, mq, _GET_METHODS>>

(***************************************************************************)
(* Authorization gates                                                     *)
(***************************************************************************)
\* "Exception" stands for the bare Exception('die') raised on a null context
is_admin_context(context) ==
    IF ~context.present THEN "Exception"
    ELSE IF context.is_admin THEN "True" ELSE "False"

is_user_context(context) ==
    IF ~context.present THEN FALSE
    ELSE IF context.is_admin THEN FALSE
    ELSE IF context.user_id = "" \/ context.project_id = "" THEN FALSE
    ELSE TRUE

\* the exception the wrapper raises, or "ok" when it calls f
require_admin_context_always(context) == "ok"
require_admin_context(context) ==
    CASE is_admin_context(context) = "Exception" -> "Exception"
      [] is_admin_context(context) = "False" -> "AdminRequired"
      [] OTHER -> "ok"

require_context_lax(context) ==
    CASE is_admin_context(context) = "Exception" -> "Exception"
      [] OTHER -> "ok"
require_context(context) ==
    CASE is_admin_context(context) = "Exception" -> "Exception"
      [] is_admin_context(context) = "False" /\ ~is_user_context(context)
            -> "NotAuthorized"
      [] OTHER -> "ok"

\* an operation defined without a decorator
no_gate(context) == "ok"

(***************************************************************************)
(* model_query                                                             *)
(***************************************************************************)
\* kwargs.get('read_deleted') or context.read_deleted
effective_read_deleted(context, read_deleted) ==
    IF read_deleted \notin Falsy THEN read_deleted
    ELSE IF ~context.present THEN "AttributeError"
    ELSE context.read_deleted

\* The rows of `table` the query selects, or the exception raised while the
\* query is built.  `table` is a set of rows, each with a `deleted` field
\* (and a project_id field when project_only is asked for).
model_query(context, table, read_deleted, project_only) ==
    LET rd == effective_read_deleted(context, read_deleted)
        seen == CASE rd = "no" -> {r \in table : ~r.deleted}
                  [] rd = "yes" -> table
                  [] rd = "only" -> {r \in table : r.deleted}
                  [] OTHER -> {}
    IN  IF rd = "AttributeError" THEN [exc |-> "AttributeError", rows |-> {}]
        ELSE IF rd \notin {"no", "yes", "only"}
             THEN [exc |-> "Exception", rows |-> {}]
        ELSE IF project_only /\ is_user_context(context)
             THEN [exc |-> "ok",
                   rows |-> {r \in seen : r.project_id = context.project_id}]
        ELSE [exc |-> "ok", rows |-> seen]

(***************************************************************************)
(* Threads                                                                 *)
(***************************************************************************)
Idle ==
    [pc |-> "idle", op |-> "", ctx |-> NoContext, id |-> "", val |-> None,
     res |-> <<>>, has_res |-> FALSE, k |-> 0, popped |-> {}, now |-> 0,
     pend_plans |-> {}, pend_res |-> {}, pre |-> {}, ins |-> {}, retries |-> 0,
     sessions |-> 0, statements |-> 0, exc |-> "", out |-> {}]

\* the call of thread record `rec` ends: it returns `out` or raises `exc`;
\* an open transaction is rolled back unless the step committed it
Finish(rec, exc, out) ==
    [rec EXCEPT !.pc = "done", !.exc = exc, !.out = out,
                !.pend_plans = {}, !.pend_res = {}]

Call(op, context, id) ==
    [Idle EXCEPT !.op = op, !.ctx = context, !.id = id]

\* a call that is a single step: it opened `sessions` sessions and executed
\* `statements` statements
Done(t, op, context, id, exc, out, sessions, statements) ==
    Finish([Call(op, context, id) EXCEPT !.sessions = sessions,
                                         !.statements = statements], exc, out)

\* the caller takes the result and the thread is free for the next call
Return(t) ==
    /\ th[t].pc = "done"
    /\ th' = [th EXCEPT ![t] = Idle]
    /\ UNCHANGED <<entities, plans, resources, clock, calls, facade_vars>>

\* timeutils.utcnow(): time has passed since the last reading, or has not;
\* clock is the last value read
utcnow(now) ==
    /\ now \in clock..MaxClock
    /\ clock' = now

Init ==
    /\ entities = {}
    /\ plans = {}
    /\ resources = {}
    /\ clock = 1
    /\ calls = 0
    /\ th = [t \in Threads |-> Idle]
    /\ FACADE = 0
    /\ LOCK = None
    /\ built = 0
    /\ first = None
    /\ builder = {}
    /\ mq = [called |-> FALSE, context |-> NoContext, read_deleted |-> None,
             project_only |-> FALSE, table |-> {}, exc |-> "", rows |-> {}]
    /\ fth = [f \in FacadeThreads |-> [pc |-> "idle", op |-> "", facade |-> 0]]
    /\ _GET_METHODS = [model \in Models |-> Absent]

(***************************************************************************)
(* Service, Trigger, ScheduledOperation, ScheduledOperationState and       *)
(* ScheduledOperationLog.  A row is [kind, id, deleted, val]; for a        *)
(* ScheduledOperationState the id is its operation_id.  Each of these      *)
(* operations is one transaction of one session.                           *)
(***************************************************************************)
NotFound(kind) == kind \o "NotFound"

EntityRow(kind, id, val) == [kind |-> kind, id |-> id, deleted |-> FALSE, val |-> val]

\* model_query(context, models.<kind>, session=session).filter_by(id=id).first()
\* followed by the raise of the kind's NotFound
query_first(kind, context, id) ==
    LET q == model_query(context, {r \in entities : r.kind = kind}, None, FALSE)
        hit == {r \in q.rows : r.id = id}
    IN  IF q.exc # "ok" THEN [exc |-> q.exc, out |-> {}, statements |-> 0]
        ELSE IF hit = {} THEN [exc |-> NotFound(kind), out |-> {}, statements |-> 1]
        ELSE [exc |-> "ok", out |-> hit, statements |-> 1]

_service_get(context, id) ==
    IF require_admin_context(context) # "ok"
    THEN [exc |-> require_admin_context(context), out |-> {}, statements |-> 0]
    ELSE query_first("Service", context, id)
_trigger_get(context, id) == query_first("Trigger", context, id)
_scheduled_operation_get(context, id) == query_first("ScheduledOperation", context, id)
_scheduled_operation_state_get(context, id) ==
    query_first("ScheduledOperationState", context, id)
_scheduled_operation_log_get(context, id) ==
    query_first("ScheduledOperationLog", context, id)

\* session.delete(ref): the row is removed from its table
session_delete_soft(rows) ==
    (entities \ rows) \cup {[r EXCEPT !.deleted = TRUE] : r \in rows}
session_delete(rows) == entities \ rows
\* ref.delete(session=session), the delete method of the model classes
ModelBase_delete(rows) == entities \ rows
\* ref.update(values); ref.save(session)
ModelBase_update_insert(rows, val) ==
    entities \cup {[r EXCEPT !.val = val] : r \in rows}
ModelBase_update(rows, val) ==
    (entities \ rows) \cup {[r EXCEPT !.val = val] : r \in rows}

EntityUnchanged == UNCHANGED <<plans, resources, clock, calls, facade_vars>>

\* <kind>_get: gate, then the kind's _get
EntityGet(t, op, gate, got, context, id) ==
    /\ th[t].pc = "idle"
    /\ th' = [th EXCEPT ![t] =
                IF gate # "ok" THEN Done(t, op, context, id, gate, {}, 0, 0)
                ELSE Done(t, op, context, id, got.exc, got.out, 1, got.statements)]
    /\ UNCHANGED entities
    /\ EntityUnchanged

\* <kind>_create: ref = models.<kind>(); ref.update(values); ref.save(session)
EntityCreate(t, op, kind, gate, context, id, val) ==
    /\ th[t].pc = "idle"
    /\ IF gate # "ok"
       THEN /\ th' = [th EXCEPT ![t] = Done(t, op, context, id, gate, {}, 0, 0)]
            /\ UNCHANGED entities
       ELSE IF \E r \in entities : r.kind = kind /\ r.id = id
       THEN /\ th' = [th EXCEPT ![t] =
                        Done(t, op, context, id, "DBDuplicateEntry", {}, 1, 1)]
            /\ UNCHANGED entities
       ELSE /\ Cardinality(entities) < MaxEntityRows
            /\ entities' = entities \cup {EntityRow(kind, id, val)}
            /\ th' = [th EXCEPT ![t] =
                        Done(t, op, context, id, "ok", {EntityRow(kind, id, val)}, 1, 1)]
    /\ EntityUnchanged

\* <kind>_update: with session.begin(): ref = _get(...); ref.update(values)
EntityUpdate(t, op, gate, got, context, id, val) ==
    /\ th[t].pc = "idle"
    /\ IF gate # "ok"
       THEN /\ th' = [th EXCEPT ![t] = Done(t, op, context, id, gate, {}, 0, 0)]
            /\ UNCHANGED entities
       ELSE IF got.exc # "ok"
       THEN /\ th' = [th EXCEPT ![t] =
                        Done(t, op, context, id, got.exc, {}, 1, got.statements)]
            /\ UNCHANGED entities
       ELSE /\ entities' = ModelBase_update(got.out, val)
            /\ th' = [th EXCEPT ![t] =
                        Done(t, op, context, id, "ok",
                             {[r EXCEPT !.val = val] : r \in got.out}, 1, 2)]
    /\ EntityUnchanged

\* <kind>_delete / service_destroy: with session.begin(): ref = _get(...);
\* then `after`, the table once the row is deleted
EntityDelete(t, op, gate, got, after, context, id) ==
    /\ th[t].pc = "idle"
    /\ IF gate # "ok"
       THEN /\ th' = [th EXCEPT ![t] = Done(t, op, context, id, gate, {}, 0, 0)]
            /\ UNCHANGED entities
       ELSE IF got.exc # "ok"
       THEN /\ th' = [th EXCEPT ![t] =
                        Done(t, op, context, id, got.exc, {}, 1, got.statements)]
            /\ UNCHANGED entities
       ELSE /\ entities' = after
            /\ th' = [th EXCEPT ![t] = Done(t, op, context, id, "ok", {}, 1, 2)]
    /\ EntityUnchanged

service_destroy(t) ==
    \E context \in Contexts, id \in EntityIds :
        EntityDelete(t, "service_destroy", require_admin_context(context),
                     _service_get(context, id),
                     ModelBase_delete(_service_get(context, id).out), context, id)

service_get(t) ==
    \E context \in Contexts, id \in EntityIds :
        EntityGet(t, "service_get", require_admin_context(context),
                  _service_get(context, id), context, id)

\* model_query(context, models.Service).all()
service_get_all(t) ==
    \E context \in Contexts :
        LET q == model_query(context, {r \in entities : r.kind = "Service"},
                             None, FALSE)
        IN  EntityGet(t, "service_get_all", require_admin_context(context),
                      [exc |-> q.exc, out |-> q.rows,
                       statements |-> IF q.exc = "ok" THEN 1 ELSE 0],
                      context, "")

service_create(t) ==
    \E context \in Contexts, id \in EntityIds, val \in CreateVals :
        EntityCreate(t, "service_create", "Service",
                     require_admin_context(context), context, id, val)

service_update(t) ==
    \E context \in Contexts, id \in EntityIds, val \in Vals :
        EntityUpdate(t, "service_update", require_admin_context(context),
                     _service_get(context, id), context, id, val)

trigger_get(t) ==
    \E context \in Contexts, id \in EntityIds :
        EntityGet(t, "trigger_get", no_gate(context),
                  _trigger_get(context, id), context, id)

trigger_create(t) ==
    \E context \in Contexts, id \in EntityIds, val \in CreateVals :
        EntityCreate(t, "trigger_create", "Trigger", no_gate(context),
                     context, id, val)

trigger_delete(t) ==
    \E context \in Contexts, id \in EntityIds :
        EntityDelete(t, "trigger_delete", no_gate(context),
                     _trigger_get(context, id),
                     ModelBase_delete(_trigger_get(context, id).out), context, id)

scheduled_operation_get(t) ==
    \E context \in Contexts, id \in EntityIds :
        EntityGet(t, "scheduled_operation_get", no_gate(context),
                  _scheduled_operation_get(context, id), context, id)

scheduled_operation_create(t) ==
    \E context \in Contexts, id \in EntityIds, val \in CreateVals :
        EntityCreate(t, "scheduled_operation_create", "ScheduledOperation",
                     no_gate(context), context, id, val)

scheduled_operation_delete(t) ==
    \E context \in Contexts, id \in EntityIds :
        EntityDelete(t, "scheduled_operation_delete", no_gate(context),
                     _scheduled_operation_get(context, id),
                     session_delete(_scheduled_operation_get(context, id).out),
                     context, id)

scheduled_operation_state_get(t) ==
    \E context \in Contexts, id \in EntityIds :
        EntityGet(t, "scheduled_operation_state_get", no_gate(context),
                  _scheduled_operation_state_get(context, id), context, id)

scheduled_operation_state_create(t) ==
    \E context \in Contexts, id \in EntityIds, val \in CreateVals :
        EntityCreate(t, "scheduled_operation_state_create",
                     "ScheduledOperationState", no_gate(context), context, id, val)

scheduled_operation_state_delete(t) ==
    \E context \in Contexts, id \in EntityIds :
        EntityDelete(t, "scheduled_operation_state_delete", no_gate(context),
                     _scheduled_operation_state_get(context, id),
                     ModelBase_delete(_scheduled_operation_state_get(context, id).out),
                     context, id)

scheduled_operation_log_get(t) ==
    \E context \in Contexts, id \in EntityIds :
        EntityGet(t, "scheduled_operation_log_get", no_gate(context),
                  _scheduled_operation_log_get(context, id), context, id)

scheduled_operation_log_create(t) ==
    \E context \in Contexts, id \in EntityIds, val \in CreateVals :
        EntityCreate(t, "scheduled_operation_log_create", "ScheduledOperationLog",
                     no_gate(context), context, id, val)

scheduled_operation_log_delete(t) ==
    \E context \in Contexts, id \in EntityIds :
        EntityDelete(t, "scheduled_operation_log_delete", no_gate(context),
                     _scheduled_operation_log_get(context, id),
                     session_delete(_scheduled_operation_log_get(context, id).out),
                     context, id)

\* max_retries of the four wrap_db_retry decorators
max_retries == 5

\* oslo_db_api.wrap_db_retry(max_retries=5, retry_on_deadlock=True), on a
\* DBDeadlock raised by f: while retries remain, one is used up and f is
\* called again; when none remains the DBDeadlock is raised to the caller
wrap_db_retry_unbounded(rec) == [rec EXCEPT !.retries = @ + 1]
wrap_db_retry(rec) ==
    IF rec.retries < max_retries
    THEN [rec EXCEPT !.retries = @ + 1]
    ELSE Finish(rec, "DBDeadlock", {})

\* <kind>_update is called: the wrapper of wrap_db_retry is entered
EntityUpdateCall(t, op, context, id, val) ==
    /\ th[t].pc = "idle"
    /\ th' = [th EXCEPT ![t] =
                [Call(op, context, id) EXCEPT !.pc = "entity_update", !.val = val]]
    /\ UNCHANGED entities
    /\ EntityUnchanged

\* one attempt of <kind>_update: session = get_session();
\* with session.begin(): ref = _<kind>_get(...); ref.update(values);
\* ref.save(session); the write ends with the commit or with a DBDeadlock,
\* which rolls the transaction back
EntityUpdateAttempt(t, op, got) ==
    /\ th[t].pc = "entity_update"
    /\ th[t].op = op
    /\ LET me == [th[t] EXCEPT !.sessions = @ + 1,
                               !.statements = @ + got.statements]
           new == {[r EXCEPT !.val = th[t].val] : r \in got.out}
       IN  IF got.exc # "ok"
           THEN /\ th' = [th EXCEPT ![t] = Finish(me, got.exc, {})]
                /\ UNCHANGED entities
           ELSE \/ /\ entities' = ModelBase_update(got.out, th[t].val)
                   /\ th' = [th EXCEPT ![t] =
                               Finish([me EXCEPT !.statements = @ + 1], "ok", new)]
                \/ /\ th' = [th EXCEPT ![t] =
                               wrap_db_retry([me EXCEPT !.statements = @ + 1])]
                   /\ UNCHANGED entities
    /\ EntityUnchanged

trigger_update(t) ==
    \/ \E context \in ContextsOf(t), id \in EntityIds, val \in Vals :
          EntityUpdateCall(t, "trigger_update", context, id, val)
    \/ EntityUpdateAttempt(t, "trigger_update",
                           _trigger_get(th[t].ctx, th[t].id))

scheduled_operation_update(t) ==
    \/ \E context \in ContextsOf(t), id \in EntityIds, val \in Vals :
          EntityUpdateCall(t, "scheduled_operation_update", context, id, val)
    \/ EntityUpdateAttempt(t, "scheduled_operation_update",
                           _scheduled_operation_get(th[t].ctx, th[t].id))

scheduled_operation_state_update(t) ==
    \/ \E context \in ContextsOf(t), id \in EntityIds, val \in Vals :
          EntityUpdateCall(t, "scheduled_operation_state_update", context, id, val)
    \/ EntityUpdateAttempt(t, "scheduled_operation_state_update",
                           _scheduled_operation_state_get(th[t].ctx, th[t].id))

scheduled_operation_log_update(t) ==
    \/ \E context \in ContextsOf(t), id \in EntityIds, val \in Vals :
          EntityUpdateCall(t, "scheduled_operation_log_update", context, id, val)
    \/ EntityUpdateAttempt(t, "scheduled_operation_log_update",
                           _scheduled_operation_log_get(th[t].ctx, th[t].id))


(***************************************************************************)
(* Plan and Resource.  A plans row is [id, project_id, status, deleted,    *)
(* deleted_at]; a resources row is [pk, plan_id, resource_id, deleted,     *)
(* deleted_at], pk being the autoincremented primary key.  deleted_at is 0 *)
(* while it is NULL.                                                       *)
(***************************************************************************)
PlanRow(id, project_id, status) ==
    [id |-> id, project_id |-> project_id, status |-> status,
     deleted |-> FALSE, deleted_at |-> 0]

ResourceRow(pk, plan_id, resource_id) ==
    [pk |-> pk, plan_id |-> plan_id, resource_id |-> resource_id,
     deleted |-> FALSE, deleted_at |-> 0]

\* _resource_refs: one Resource per element of the list, none for None
_resource_refs(resource_list, plan_id, first_pk) ==
    {ResourceRow(first_pk + i - 1, plan_id, resource_list[i]) :
        i \in 1..Len(resource_list)}

\* the UPDATE ... SET deleted, deleted_at of plan_destroy and
\* _plan_resources_update, applied to the rows with the given keys
soft_delete_plans(ids, now) ==
    {IF p.id \in ids THEN [p EXCEPT !.deleted = TRUE, !.deleted_at = now] ELSE p :
        p \in plans}

soft_delete_resources(pks, now) ==
    {IF r.pk \in pks THEN [r EXCEPT !.deleted = TRUE, !.deleted_at = now] ELSE r :
        r \in resources}

\* _plan_get_query(context, project_only=True).filter_by(id=plan_id).first()
_plan_get_unscoped(context, plan_id) ==
    LET q == model_query(context, plans, None, FALSE)
        hit == {p \in q.rows : p.id = plan_id}
    IN  IF require_context(context) # "ok"
        THEN [exc |-> require_context(context), out |-> {}]
        ELSE IF q.exc # "ok" THEN [exc |-> q.exc, out |-> {}]
        ELSE IF hit = {} THEN [exc |-> "PlanNotFound", out |-> {}]
        ELSE [exc |-> "ok", out |-> hit]

_plan_get(context, plan_id) ==
    LET q == model_query(context, plans, None, TRUE)
        hit == {p \in q.rows : p.id = plan_id}
    IN  IF require_context(context) # "ok"
        THEN [exc |-> require_context(context), out |-> {}]
        ELSE IF q.exc # "ok" THEN [exc |-> q.exc, out |-> {}]
        ELSE IF hit = {} THEN [exc |-> "PlanNotFound", out |-> {}]
        ELSE [exc |-> "ok", out |-> hit]

\* the wrapper of require_plan_exists: plan_get(context, plan_id), then f
require_plan_exists_skipped(context, plan_id) == "ok"
require_plan_exists(context, plan_id) == _plan_get(context, plan_id).exc

\* model_query(context, models.Resource, session=session).filter_by(plan_id=plan_id):
\* the keys of the rows the UPDATE of _plan_resources_update / plan_destroy changes
resources_of_plan(context, plan_id) ==
    {r.pk : r \in model_query(context, {r \in resources : r.plan_id = plan_id},
                              None, FALSE).rows}

PlanUnchanged == UNCHANGED <<entities, facade_vars>>

\* one more call of the Plan repository passes its wrappers
NewCall ==
    /\ calls < MaxCalls
    /\ calls' = calls + 1
SameCall == UNCHANGED calls
\* the resources table has room for the n rows a call inserts
Room(n) == Cardinality(resources) + n <= MaxRes

\* the storage backend raises DBDeadlock at a write of thread t
DeadlockRaised(t) == th[t].retries < MaxDeadlocks

\* _retry_on_deadlock, on a DBDeadlock raised by f: the transaction of the
\* attempt is rolled back, the warning is logged (retries counts the log
\* lines), and after the sleep f is called again, from its statement `again`
_retry_on_deadlock_raise(rec, again) == Finish(rec, "DBDeadlock", {})
_retry_on_deadlock(rec, again) ==
    [rec EXCEPT !.pc = again, !.retries = @ + 1,
                !.pend_plans = {}, !.pend_res = {}]


\* plan_create up to the end of `with session.begin(): session.add(plan_ref)`
plan_create(t) ==
    \E context \in ContextsOf(t), values \in CreateValuesOf(t) :
      LET id == values.id
          project_id == values.project_id
          resource_list == values.resources
      IN
        /\ th[t].pc = "idle"
        /\ IF require_context(context) # "ok"
           THEN /\ th' = [th EXCEPT ![t] =
                            Done(t, "plan_create", context, id,
                                 require_context(context), {}, 0, 0)]
                /\ UNCHANGED <<plans, resources>>
                /\ SameCall
           ELSE \E new_id \in PlanIds :
                \* values['id'] = str(uuid.uuid4()) when no id is given
                /\ IF id = None THEN \A p \in plans : p.id # new_id ELSE new_id = id
                /\ IF \E p \in plans : p.id = new_id
                   THEN /\ th' = [th EXCEPT ![t] =
                                    Done(t, "plan_create", context, new_id,
                                         "DBDuplicateEntry", {}, 1, 1)]
                        /\ UNCHANGED <<plans, resources>>
                        /\ SameCall
                   ELSE /\ Cardinality(resources) + Len(resource_list) <= MaxRes
                        /\ NewCall
                        /\ plans' = plans \cup {PlanRow(new_id, project_id, "v0")}
                        /\ resources' = resources \cup
                                _resource_refs(resource_list, new_id,
                                               Cardinality(resources) + 1)
                        /\ th' = [th EXCEPT ![t] =
                                    [Call("plan_create", context, new_id)
                                        EXCEPT !.pc = "create_reread",
                                               !.res = resource_list,
                                               !.val = project_id,
                                               !.sessions = 1, !.statements = 1]]
        /\ UNCHANGED clock
        /\ PlanUnchanged

\* plan_create: return _plan_get(context, values['id'], session=session)
plan_create_reread(t) ==
    /\ th[t].pc = "create_reread"
    /\ LET got == _plan_get(th[t].ctx, th[t].id)
       IN  th' = [th EXCEPT ![t] =
                    Finish([th[t] EXCEPT !.statements = 2], got.exc, got.out)]
    /\ UNCHANGED <<plans, resources, clock>>
    /\ SameCall
    /\ PlanUnchanged

plan_get(t) ==
    \E context \in ContextsOf(t), id \in PlanIdsOf(t) :
        /\ th[t].pc = "idle"
        /\ LET got == _plan_get(context, id)
           IN  th' = [th EXCEPT ![t] =
                        IF require_context(context) # "ok"
                        THEN Finish(Call("plan_get", context, id),
                                    require_context(context), {})
                        ELSE Finish([Call("plan_get", context, id)
                                        EXCEPT !.sessions = 1,
                                               !.statements =
                                                  IF got.exc \in {"ok", "PlanNotFound"}
                                                  THEN 1 ELSE 0],
                                    got.exc, got.out)]
        /\ UNCHANGED <<plans, resources, clock>>
        /\ SameCall
        /\ PlanUnchanged

\* plan_destroy: the require_admin_context wrapper
plan_destroy(t) ==
    \E context \in ContextsOf(t), id \in PlanIdsOf(t) :
        /\ th[t].pc = "idle"
        /\ th' = [th EXCEPT ![t] =
                    IF require_admin_context(context) # "ok"
                    THEN Finish(Call("plan_destroy", context, id),
                                require_admin_context(context), {})
                    ELSE [Call("plan_destroy", context, id)
                            EXCEPT !.pc = "destroy_plan"]]
        /\ UNCHANGED <<plans, resources, clock>>
        /\ IF require_admin_context(context) = "ok" THEN NewCall ELSE SameCall
        /\ PlanUnchanged

\* plan_destroy: session = get_session(); now = utcnow(); session.begin();
\* the UPDATE of the plans table
plan_destroy_plan(t) ==
    /\ th[t].pc = "destroy_plan"
    /\ \E now \in 1..MaxClock :
        /\ utcnow(now)
        /\ LET q == model_query(th[t].ctx, plans, None, FALSE)
               me == [th[t] EXCEPT !.sessions = @ + 1, !.now = now]
           IN  th' = [th EXCEPT ![t] =
                        IF q.exc # "ok" THEN Finish(me, q.exc, {})
                        ELSE [me EXCEPT !.pc = "destroy_resources",
                                        !.statements = @ + 1,
                                        !.pend_plans =
                                            {p.id : p \in {x \in q.rows :
                                                              x.id = th[t].id}}]]
    /\ UNCHANGED <<plans, resources>>
    /\ SameCall
    /\ PlanUnchanged

\* plan_destroy: the UPDATE of the resources table and the commit, or a
\* DBDeadlock, which _retry_on_deadlock logs before it calls f again
plan_destroy_resources(t) ==
    /\ th[t].pc = "destroy_resources"
    /\ \/ /\ plans' = soft_delete_plans(th[t].pend_plans, th[t].now)
          /\ resources' = soft_delete_resources(
                              resources_of_plan(th[t].ctx, th[t].id), th[t].now)
          /\ th' = [th EXCEPT ![t] =
                      Finish([th[t] EXCEPT !.statements = @ + 1], "ok", {})]
       \/ /\ DeadlockRaised(t)
          /\ th' = [th EXCEPT ![t] = _retry_on_deadlock(th[t], "destroy_plan")]
          /\ UNCHANGED <<plans, resources>>
    /\ UNCHANGED clock
    /\ SameCall
    /\ PlanUnchanged


\* plan_update: the require_context and require_plan_exists wrappers
plan_update(t) ==
    \E context \in ContextsOf(t), id \in PlanIdsOf(t), status \in {"v1"},
       has_resources \in BOOLEAN, resource_list \in ResourceLists :
        /\ th[t].pc = "idle"
        \* values without a 'resources' key
        /\ ~has_resources => resource_list = <<>>
        /\ LET me == [Call("plan_update", context, id)
                        EXCEPT !.val = status, !.has_res = has_resources,
                               !.res = resource_list,
                               !.pre = {r.pk : r \in {x \in resources :
                                                         x.plan_id = id}}]
               exists == require_plan_exists(context, id)
           IN  th' = [th EXCEPT ![t] =
                        IF require_context(context) # "ok"
                        THEN Finish(me, require_context(context), {})
                        ELSE IF exists # "ok"
                        THEN Finish([me EXCEPT !.sessions = 1,
                                               !.statements =
                                                  IF exists = "PlanNotFound"
                                                  THEN 1 ELSE 0],
                                    exists, {})
                        ELSE [me EXCEPT !.sessions = 2, !.statements = 1,
                                        !.pc = IF has_resources
                                               THEN "update_softdel"
                                               ELSE "update_reget"]]
        /\ UNCHANGED <<plans, resources, clock>>
        /\ IF require_context(context) = "ok" /\ require_plan_exists(context, id) = "ok"
           THEN NewCall /\ Room(Len(resource_list)) ELSE SameCall
        /\ PlanUnchanged

\* plan_update, inside its transaction: _plan_resources_update up to the end
\* of its `with session.begin()`, which joins the transaction of plan_update
plan_update_softdel(t) ==
    /\ th[t].pc = "update_softdel"
    /\ \E now \in 1..MaxClock :
        /\ utcnow(now)
        /\ \/ th' = [th EXCEPT ![t] =
                      [th[t] EXCEPT !.pc = IF Len(th[t].res) = 0
                                           THEN "update_reget"
                                           ELSE "update_insert",
                                    !.k = 1,
                                    !.now = now,
                                    !.statements = @ + 1,
                                    !.pend_res =
                                        resources_of_plan(th[t].ctx, th[t].id)]]
           \/ /\ DeadlockRaised(t)
              /\ th' = [th EXCEPT ![t] =
                          Finish([th[t] EXCEPT !.now = now], "DBDeadlock", {})]
    /\ UNCHANGED <<plans, resources>>
    /\ SameCall
    /\ PlanUnchanged

\* _resource_create(context, resource): its own session, committed at once
_resource_create(plan_id, resource_id) ==
    resources \cup {ResourceRow(Cardinality(resources) + 1, plan_id, resource_id)}

\* plan_update: one turn of the loop of _plan_resources_update
plan_update_insert(t) ==
    /\ th[t].pc = "update_insert"
    /\ \/ /\ Cardinality(resources) < MaxRes
          /\ resources' = _resource_create(th[t].id, th[t].res[th[t].k])
          /\ th' = [th EXCEPT ![t] =
                      [th[t] EXCEPT !.pc = IF th[t].k = Len(th[t].res)
                                           THEN "update_reget"
                                           ELSE "update_insert",
                                    !.k = @ + 1,
                                    !.popped = @ \cup {th[t].k},
                                    !.ins = @ \cup {Cardinality(resources) + 1},
                                    !.sessions = @ + 1,
                                    !.statements = @ + 1]]
       \/ /\ DeadlockRaised(t)
          /\ th' = [th EXCEPT ![t] =
                      Finish([th[t] EXCEPT !.popped = @ \cup {th[t].k}],
                             "DBDeadlock", {})]
          /\ UNCHANGED resources
    /\ UNCHANGED <<plans, clock>>
    /\ SameCall
    /\ PlanUnchanged

\* plan_update: plan_ref = _plan_get(...); plan_ref.update(values); commit
plan_update_reget(t) ==
    /\ th[t].pc = "update_reget"
    /\ LET got == _plan_get(th[t].ctx, th[t].id)
           new == {[p EXCEPT !.status = th[t].val] : p \in got.out}
       IN  IF got.exc # "ok"
           THEN /\ th' = [th EXCEPT ![t] =
                            Finish([th[t] EXCEPT !.statements = @ + 1], got.exc, {})]
                /\ UNCHANGED <<plans, resources>>
           ELSE /\ plans' = (plans \ got.out) \cup new
                /\ resources' = soft_delete_resources(th[t].pend_res, th[t].now)
                /\ th' = [th EXCEPT ![t] =
                            Finish([th[t] EXCEPT !.statements = @ + 2], "ok", new)]
    /\ UNCHANGED clock
    /\ SameCall
    /\ PlanUnchanged

\* plan_resources_update: the require_context and require_plan_exists wrappers
plan_resources_update(t) ==
    \E context \in ContextsOf(t), id \in PlanIdsOf(t), resource_list \in ResourceLists :
        /\ th[t].pc = "idle"
        /\ LET me == [Call("plan_resources_update", context, id)
                        EXCEPT !.has_res = TRUE, !.res = resource_list,
                               !.pre = {r.pk : r \in {x \in resources :
                                                         x.plan_id = id}}]
               exists == require_plan_exists(context, id)
           IN  th' = [th EXCEPT ![t] =
                        IF require_context(context) # "ok"
                        THEN Finish(me, require_context(context), {})
                        ELSE IF exists # "ok"
                        THEN Finish([me EXCEPT !.sessions = 1,
                                               !.statements =
                                                  IF exists = "PlanNotFound"
                                                  THEN 1 ELSE 0],
                                    exists, {})
                        ELSE [me EXCEPT !.sessions = 1, !.statements = 1,
                                        !.pc = "resources_softdel"]]
        /\ UNCHANGED <<plans, resources, clock>>
        /\ IF require_context(context) = "ok" /\ require_plan_exists(context, id) = "ok"
           THEN NewCall /\ Room(Len(resource_list)) ELSE SameCall
        /\ PlanUnchanged

\* plan_resources_update: _plan_resources_update up to the end of its
\* transaction, or a DBDeadlock, after which _retry_on_deadlock calls
\* plan_resources_update again
plan_resources_update_softdel(t) ==
    /\ th[t].pc = "resources_softdel"
    /\ \E now \in 1..MaxClock :
        /\ utcnow(now)
        /\ \/ /\ resources' = soft_delete_resources(
                                  resources_of_plan(th[t].ctx, th[t].id), now)
              /\ th' = [th EXCEPT ![t] =
                          IF Len(th[t].res) = 0
                          THEN Finish([th[t] EXCEPT !.now = now,
                                                    !.sessions = @ + 1,
                                                    !.statements = @ + 1], "ok", {})
                          ELSE [th[t] EXCEPT !.pc = "resources_insert",
                                             !.k = 1,
                                             !.now = now,
                                             !.sessions = @ + 1,
                                             !.statements = @ + 1]]
           \/ /\ DeadlockRaised(t)
              /\ th' = [th EXCEPT ![t] =
                          _retry_on_deadlock([th[t] EXCEPT !.now = now],
                                             "resources_softdel")]
              /\ UNCHANGED resources
    /\ UNCHANGED plans
    /\ SameCall
    /\ PlanUnchanged

\* plan_resources_update: one turn of the loop of _plan_resources_update.
\* resource.pop('id') raises KeyError on a dict an earlier attempt has
\* already converted.
plan_resources_update_insert(t) ==
    /\ th[t].pc = "resources_insert"
    /\ IF th[t].k \in th[t].popped
       THEN /\ th' = [th EXCEPT ![t] = Finish(th[t], "KeyError", {})]
            /\ UNCHANGED resources
       ELSE \/ /\ Cardinality(resources) < MaxRes
               /\ resources' = _resource_create(th[t].id, th[t].res[th[t].k])
               /\ LET me == [th[t] EXCEPT !.k = @ + 1,
                                          !.popped = @ \cup {th[t].k},
                                          !.ins = @ \cup {Cardinality(resources) + 1},
                                          !.sessions = @ + 1,
                                          !.statements = @ + 1]
                  IN  th' = [th EXCEPT ![t] =
                               IF th[t].k = Len(th[t].res)
                               THEN Finish(me, "ok", {})
                               ELSE me]
            \/ /\ DeadlockRaised(t)
               /\ th' = [th EXCEPT ![t] =
                           _retry_on_deadlock(
                               [th[t] EXCEPT !.popped = @ \cup {th[t].k}],
                               "resources_softdel")]
               /\ UNCHANGED resources
    /\ UNCHANGED <<plans, clock>>
    /\ SameCall
    /\ PlanUnchanged

(***************************************************************************)
(* get_by_id: the get operation of a model class, found by its name        *)
(***************************************************************************)
\* model.__name__, cut where the two re.sub of _get_get_method put a '_':
\* before each capital letter that follows another character
ClassWords(model) ==
    CASE model = "Service" -> <<"Service">>
      [] model = "Trigger" -> <<"Trigger">>
      [] model = "ScheduledOperation" -> <<"Scheduled", "Operation">>
      [] model = "ScheduledOperationState" -> <<"Scheduled", "Operation", "State">>
      [] model = "ScheduledOperationLog" -> <<"Scheduled", "Operation", "Log">>
      [] model = "Plan" -> <<"Plan">>
      [] model = "Resource" -> <<"Resource">>

\* str.lower()
lower(word) ==
    CASE word = "Service" -> "service"
      [] word = "Trigger" -> "trigger"
      [] word = "Scheduled" -> "scheduled"
      [] word = "Operation" -> "operation"
      [] word = "State" -> "state"
      [] word = "Log" -> "log"
      [] word = "Plan" -> "plan"
      [] word = "Resource" -> "resource"

\* the words in lower case, joined by '_'
RECURSIVE snake(_)
snake(words) ==
    IF Len(words) = 1 THEN lower(words[1])
    ELSE lower(words[1]) \o "_" \o snake(Tail(words))

\* globals(): the module-level names that end in _get and do not begin with '_'
globals ==
    {"service_get", "trigger_get", "scheduled_operation_get",
     "scheduled_operation_state_get", "scheduled_operation_log_get", "plan_get"}

\* the function named <snake_case_name>_get, or None when globals() has none
_get_get_method_first_word(model) ==
    LET method_name == lower(ClassWords(model)[1]) \o "_get"
    IN  IF method_name \in globals THEN method_name ELSE None
_get_get_method(model) ==
    LET method_name == snake(ClassWords(model)) \o "_get"
    IN  IF method_name \in globals THEN method_name ELSE None

\* what a call returns or raises, without the count of its statements
Result(got) == [exc |-> got.exc, out |-> got.out]

\* method(context, id), for a function of globals
CallGet(method, context, id) ==
    CASE method = "service_get" -> Result(_service_get(context, id))
      [] method = "trigger_get" -> Result(_trigger_get(context, id))
      [] method = "scheduled_operation_get"
            -> Result(_scheduled_operation_get(context, id))
      [] method = "scheduled_operation_state_get"
            -> Result(_scheduled_operation_state_get(context, id))
      [] method = "scheduled_operation_log_get"
            -> Result(_scheduled_operation_log_get(context, id))
      [] method = "plan_get" -> Result(_plan_get(context, id))

\* get_by_id: the require_context wrapper, the cache, and the call of what
\* the cache holds; calling None raises TypeError.  val is the model class,
\* k is 1 when _get_get_method was called.
get_by_id(t) ==
    \E context \in ContextsOf(t), model \in Models, id \in EntityIds :
        /\ th[t].pc = "idle"
        /\ LET derive == _GET_METHODS[model] \in {Absent, None}
               method == IF derive THEN _get_get_method(model)
                         ELSE _GET_METHODS[model]
               me == [Call("get_by_id", context, id) EXCEPT !.val = model]
           IN  IF require_context(context) # "ok"
               THEN /\ th' = [th EXCEPT ![t] =
                                Finish(me, require_context(context), {})]
                    /\ UNCHANGED _GET_METHODS
               ELSE /\ _GET_METHODS' = [_GET_METHODS EXCEPT ![model] = method]
                    /\ th' = [th EXCEPT ![t] =
                                IF method = None
                                THEN Finish([me EXCEPT !.k = 1], "TypeError", {})
                                ELSE Finish([me EXCEPT !.k = IF derive THEN 1 ELSE 0,
                                                       !.sessions = 1],
                                            CallGet(method, context, id).exc,
                                            CallGet(method, context, id).out)]
        /\ UNCHANGED <<entities, plans, resources, clock, calls,
                       FACADE, LOCK, built, first, builder, fth, mq>>

(***************************************************************************)
(* Specifications                                                          *)
(***************************************************************************)
PlanStep(t) ==
    \/ plan_create(t) \/ plan_create_reread(t)
    \/ plan_get(t)
    \/ plan_destroy(t) \/ plan_destroy_plan(t) \/ plan_destroy_resources(t)
    \/ plan_update(t) \/ plan_update_softdel(t) \/ plan_update_insert(t)
    \/ plan_update_reget(t)
    \/ plan_resources_update(t) \/ plan_resources_update_softdel(t)
    \/ plan_resources_update_insert(t)

\* The caller takes a result before another thread is scheduled: Return is
\* local to the thread, so the order loses no behaviour of the store.
NoneDone == \A t \in Threads : th[t].pc # "done"

\* one caller, every context and every Plan
Next ==
    \/ NoneDone /\ PlanStep(Caller)
    \/ Return(Caller)

\* two callers racing on one Plan
NextRace ==
    \/ \E t \in Racers : NoneDone /\ PlanStep(t)
    \/ \E t \in Racers : Return(t)

SpecRace == Init /\ [][NextRace]_vars

Spec == Init /\ [][Next]_vars

\* one caller of the operations wrapped by _retry_on_deadlock, on the Plans
\* plan_create made.  A thread inside a call goes on running: the sleep of
\* the wrapper ends and the storage backend answers every statement.
NextRetry ==
    \/ NoneDone /\ \/ plan_create(Caller) \/ plan_create_reread(Caller)
                   \/ plan_destroy(Caller) \/ plan_destroy_plan(Caller)
                   \/ plan_destroy_resources(Caller)
                   \/ plan_resources_update(Caller)
                   \/ plan_resources_update_softdel(Caller)
                   \/ plan_resources_update_insert(Caller)
    \/ Return(Caller)

SpecRetry == Init /\ [][NextRetry]_vars /\ WF_vars(NextRetry)

\* one caller that holds the admin context and the contexts of a user of
\* project A, on Plans of project A and of project B
NextTenant ==
    \/ NoneDone /\ PlanStep(Tenant)
    \/ Return(Tenant)

SpecTenant == Init /\ [][NextTenant]_vars


(***************************************************************************)
(* The engine facade: get_engine, get_session and dispose_engine all go    *)
(* through _create_facade_lazily.                                          *)
(***************************************************************************)
FacadeUnchanged ==
    UNCHANGED <<entities, plans, resources, clock, calls, th, mq, _GET_METHODS>>

\* get_engine() / get_session() / dispose_engine() is called
facade_call(f) ==
    \E op \in {"get_engine", "get_session", "dispose_engine"} :
        /\ fth[f].pc = "idle"
        /\ fth' = [fth EXCEPT ![f] = [pc |-> "lock", op |-> op, facade |-> 0]]
        /\ UNCHANGED <<FACADE, LOCK, built, first, builder>>
        /\ FacadeUnchanged

\* whether thread f may enter `with _LOCK`
lock_free_always(f) == TRUE
lock_free(f) == LOCK = None

\* with _LOCK: the lock is taken
facade_lock(f) ==
    /\ fth[f].pc = "lock"
    /\ lock_free(f)
    /\ LOCK' = f
    /\ first' = IF first = None THEN f ELSE first
    /\ fth' = [fth EXCEPT ![f].pc = "check"]
    /\ UNCHANGED <<FACADE, built, builder>>
    /\ FacadeUnchanged

\* if _FACADE is None
facade_check(f) ==
    /\ fth[f].pc = "check"
    /\ fth' = [fth EXCEPT ![f].pc = IF FACADE = 0 THEN "construct" ELSE "return"]
    /\ UNCHANGED <<FACADE, LOCK, built, first, builder>>
    /\ FacadeUnchanged

\* _FACADE = db_session.EngineFacade(...)
facade_construct(f) ==
    /\ fth[f].pc = "construct"
    /\ built' = built + 1
    /\ FACADE' = built + 1
    /\ builder' = builder \cup {f}
    /\ fth' = [fth EXCEPT ![f].pc = "return"]
    /\ UNCHANGED <<LOCK, first>>
    /\ FacadeUnchanged

\* return _FACADE, leaving the with block
facade_return(f) ==
    /\ fth[f].pc = "return"
    /\ fth' = [fth EXCEPT ![f].pc = "use", ![f].facade = FACADE]
    /\ LOCK' = IF LOCK = f THEN None ELSE LOCK
    /\ UNCHANGED <<FACADE, built, first, builder>>
    /\ FacadeUnchanged

\* facade.get_engine() / facade.get_session(**kwargs) / get_engine().dispose()
facade_use(f) ==
    /\ fth[f].pc = "use"
    /\ fth' = [fth EXCEPT ![f] = [pc |-> "idle", op |-> "", facade |-> 0]]
    /\ UNCHANGED <<FACADE, LOCK, built, first, builder>>
    /\ FacadeUnchanged

FacadeStep(f) ==
    \/ facade_call(f) \/ facade_lock(f) \/ facade_check(f)
    \/ facade_construct(f) \/ facade_return(f) \/ facade_use(f)

NextFacade == \E f \in FacadeThreads : FacadeStep(f)

SpecFacade == Init /\ [][NextFacade]_vars

(***************************************************************************)
(* One caller of the repositories of all the entities                      *)
(***************************************************************************)
EntityStep(t) ==
    \/ scheduled_operation_get(t) \/ scheduled_operation_create(t)
    \/ scheduled_operation_delete(t)
    \/ scheduled_operation_log_get(t) \/ scheduled_operation_log_create(t)
    \/ scheduled_operation_log_delete(t)
    \/ scheduled_operation_state_get(t) \/ scheduled_operation_state_create(t)
    \/ scheduled_operation_state_delete(t)
    \/ trigger_get(t) \/ trigger_create(t) \/ trigger_delete(t)
    \/ service_destroy(t) \/ service_get(t) \/ service_get_all(t)
    \/ service_create(t) \/ service_update(t)

NextEntity ==
    \/ NoneDone /\ EntityStep(EntityCaller)
    \/ NoneDone /\ \/ plan_create(EntityCaller) \/ plan_create_reread(EntityCaller)
                   \/ plan_get(EntityCaller)
                   \/ plan_destroy(EntityCaller) \/ plan_destroy_plan(EntityCaller)
                   \/ plan_destroy_resources(EntityCaller)
    \/ Return(EntityCaller)

SpecEntity == Init /\ [][NextEntity]_vars

\* One caller of the entity repositories, their update operations included.
\* A thread inside a call goes on running.
UpdateStep(t) ==
    \/ trigger_update(t) \/ scheduled_operation_update(t)
    \/ scheduled_operation_state_update(t) \/ scheduled_operation_log_update(t)

NextUpdate ==
    \/ NoneDone /\ EntityStep(EntityCaller)
    \/ UpdateStep(EntityCaller)
    \/ Return(EntityCaller)

SpecUpdate == Init /\ [][NextUpdate]_vars /\ WF_vars(NextUpdate)

\* one caller of get_by_id, on the rows the create operations made
NextLookup ==
    \/ NoneDone /\ \/ service_create(EntityCaller) \/ trigger_create(EntityCaller)
                   \/ scheduled_operation_create(EntityCaller)
                   \/ scheduled_operation_state_create(EntityCaller)
                   \/ scheduled_operation_log_create(EntityCaller)
    \/ NoneDone /\ get_by_id(EntityCaller)
    \/ Return(EntityCaller)

SpecLookup == Init /\ [][NextLookup]_vars


(***************************************************************************)
(* model_query on its own: every context, every override, every table     *)
(***************************************************************************)
\* what a caller passes as read_deleted; None when it passes nothing
Overrides == {None, "", "no", "yes", "only", "bogus"}

QueryRows ==
    {[id |-> "x1", deleted |-> FALSE, project_id |-> "A"],
     [id |-> "x2", deleted |-> TRUE, project_id |-> "A"],
     [id |-> "x3", deleted |-> FALSE, project_id |-> "B"],
     [id |-> "x4", deleted |-> TRUE, project_id |-> "B"]}

model_query_call ==
    \E context \in Contexts \ {NoContext}, read_deleted \in Overrides,
       project_only \in BOOLEAN, table \in SUBSET QueryRows :
        /\ mq' = [called |-> TRUE, context |-> context,
                  read_deleted |-> read_deleted, project_only |-> project_only,
                  table |-> table,
                  exc |-> model_query(context, table, read_deleted, project_only).exc,
                  rows |-> model_query(context, table, read_deleted, project_only).rows]
        /\ UNCHANGED <<entities, plans, resources, clock, calls, th,
                       FACADE, LOCK, built, first, builder, fth, _GET_METHODS>>

SpecQuery == Init /\ [][model_query_call]_vars


(***************************************************************************)
(* Properties                                                              *)
(***************************************************************************)
\* the call of thread t begins in this step
Called(t) == th[t].pc = "idle" /\ th'[t].pc # "idle"

AdminOps ==
    {"service_destroy", "service_get", "service_get_all", "service_create",
     "service_update", "plan_destroy"}

\* C1: an admin-only operation called with a present context whose is_admin
\* is false ends at once with AdminRequired; the store is the store before
\* the call, and the body opened no session and issued no statement.
C1_admin_required ==
    [][\A t \in Threads :
        (/\ Called(t)
         /\ th'[t].op \in AdminOps
         /\ th'[t].ctx.present
         /\ ~th'[t].ctx.is_admin)
        => /\ th'[t].pc = "done"
           /\ th'[t].exc = "AdminRequired"
           /\ store' = store
           /\ th'[t].sessions = 0
           /\ th'[t].statements = 0]_vars

\* service_destroy of an existing Service by a non-admin has been refused
C1_witness ==
    \E t \in Threads :
        /\ th[t].pc = "done"
        /\ th[t].op = "service_destroy"
        /\ th[t].ctx.present
        /\ ~th[t].ctx.is_admin
        /\ th[t].exc = "AdminRequired"
        /\ \E r \in entities : r.kind = "Service" /\ r.id = th[t].id

\* C2: every public operation is gated by require_context or
\* require_admin_context: called with a present context that is neither admin
\* nor a well-formed user context, an operation is refused and has read or
\* written no row.
C2_every_operation_gated ==
    \A t \in Threads :
        (/\ th[t].pc = "done"
         /\ th[t].ctx.present
         /\ ~th[t].ctx.is_admin
         /\ ~is_user_context(th[t].ctx))
        => /\ th[t].exc \in {"NotAuthorized", "AdminRequired"}
           /\ th[t].statements = 0

\* the operations that return what _plan_get found
PlanLookups == {"plan_get", "plan_create", "plan_update"}

\* C3: for a non-admin user context of project A, a Plan lookup never returns
\* a Plan of another project; plan_get of an id that only Plans of other
\* projects carry fails with PlanNotFound, even when such a Plan is live.
C3_project_scoped ==
    \A t \in Threads :
        (th[t].pc = "done" /\ is_user_context(th[t].ctx))
        => /\ th[t].op \in PlanLookups
                => \A p \in th[t].out : p.project_id = th[t].ctx.project_id
           /\ (/\ th[t].op = "plan_get"
               /\ th[t].ctx.read_deleted \in {"no", "yes", "only"}
               /\ \A p \in plans :
                    p.id = th[t].id => p.project_id # th[t].ctx.project_id)
                => th[t].exc = "PlanNotFound"

\* plan_get by a user of one project, of the live Plan of another project,
\* has failed with PlanNotFound
C3_witness ==
    \E t \in Threads :
        /\ th[t].pc = "done"
        /\ th[t].op = "plan_get"
        /\ is_user_context(th[t].ctx)
        /\ th[t].exc = "PlanNotFound"
        /\ \E p \in plans : /\ p.id = th[t].id
                            /\ ~p.deleted
                            /\ p.project_id # th[t].ctx.project_id

\* the rows of a table a visibility flag stands for
VisibleRows(table, flag) ==
    CASE flag = "no" -> {r \in table : ~r.deleted}
      [] flag = "yes" -> table
      [] flag = "only" -> {r \in table : r.deleted}
      [] OTHER -> {}

\* C4: model_query gives exactly the live rows under "no", all the rows under
\* "yes" and exactly the soft-deleted rows under "only", and a read_deleted
\* the caller passes always takes precedence over the context's read_deleted.
C4_override_precedence ==
    mq.called =>
        LET flag == IF mq.read_deleted # None THEN mq.read_deleted
                    ELSE mq.context.read_deleted
            scoped == IF mq.project_only /\ is_user_context(mq.context)
                      THEN {r \in mq.table : r.project_id = mq.context.project_id}
                      ELSE mq.table
        IN  IF flag \in {"no", "yes", "only"}
            THEN mq.exc = "ok" /\ mq.rows = VisibleRows(scoped, flag)
            ELSE mq.exc = "Exception"

DeleteOps ==
    {"service_destroy", "trigger_delete", "scheduled_operation_delete",
     "scheduled_operation_state_delete", "scheduled_operation_log_delete",
     "plan_destroy"}

\* the get operation of the entity a delete operation belongs to
GetAfter(op, context, id) ==
    CASE op = "service_destroy" -> _service_get(context, id)
      [] op = "trigger_delete" -> _trigger_get(context, id)
      [] op = "scheduled_operation_delete" -> _scheduled_operation_get(context, id)
      [] op = "scheduled_operation_state_delete"
            -> _scheduled_operation_state_get(context, id)
      [] op = "scheduled_operation_log_delete"
            -> _scheduled_operation_log_get(context, id)
      [] op = "plan_destroy" -> _plan_get(context, id)

NotFoundOf(op) ==
    CASE op = "service_destroy" -> "ServiceNotFound"
      [] op = "trigger_delete" -> "TriggerNotFound"
      [] op = "scheduled_operation_delete" -> "ScheduledOperationNotFound"
      [] op = "scheduled_operation_state_delete" -> "ScheduledOperationStateNotFound"
      [] op = "scheduled_operation_log_delete" -> "ScheduledOperationLogNotFound"
      [] op = "plan_destroy" -> "PlanNotFound"

\* the context of the get that follows a delete
Reader(read_deleted) == Context(TRUE, "admin", "A", read_deleted)

\* the delete operation op of id ends successfully in this step of thread t
Deleted(t, op, id) ==
    /\ th[t].pc # "done"
    /\ th'[t].pc = "done"
    /\ th'[t].op = op
    /\ th'[t].id = id
    /\ th'[t].exc = "ok"

C6_destroy_cascades ==
    \A t \in Threads :
        (th[t].pc = "done" /\ th[t].op = "plan_destroy" /\ th[t].exc = "ok")
        => \A p \in plans :
              p.id = th[t].id
              => /\ p.deleted
                 /\ \A r \in resources :
                      r.plan_id = p.id
                      => r.deleted /\ r.deleted_at = p.deleted_at

\* C7: a successful plan_update with a 'resources' key leaves every Resource
\* row the Plan had before the call present with deleted = true, inserts
\* exactly len(resources) rows with deleted = false that carry the Plan's id,
\* and changes no Resource row of another Plan.
C7_update_replaces_resources ==
    [][\A t \in Threads :
        (th'[t].op = "plan_update" /\ th'[t].has_res /\ th'[t] # th[t])
        => /\ {r \in resources' : r.plan_id # th'[t].id}
                = {r \in resources : r.plan_id # th'[t].id}
           /\ (th'[t].pc = "done" /\ th'[t].exc = "ok")
                => /\ \A pk \in th'[t].pre :
                        \E r \in resources' : r.pk = pk /\ r.deleted
                   /\ Cardinality(th'[t].ins) = Len(th'[t].res)
                   /\ \A r \in resources' :
                        r.pk \in th'[t].ins
                        => r.plan_id = th'[t].id /\ ~r.deleted]_vars

\* C8: plan_update with a 'resources' key is atomic: until it has succeeded,
\* and after it has failed, the Plan has no Resource row committed that it did
\* not have before the call.
C8_update_atomic ==
    \A t \in Threads :
        (/\ th[t].op = "plan_update"
         /\ th[t].has_res
         /\ ~(th[t].pc = "done" /\ th[t].exc = "ok"))
        => \A r \in resources : r.plan_id = th[t].id => r.pk \in th[t].pre

\* a Plan row with this id is visible to the context: live under "no",
\* soft-deleted under "only", and of the context's project for a user context
PlanVisible(context, plan_id) ==
    \E p \in plans :
        /\ p.id = plan_id
        /\ context.read_deleted = "no" => ~p.deleted
        /\ context.read_deleted = "only" => p.deleted
        /\ is_user_context(context) => p.project_id = context.project_id

\* C9: plan_update and plan_resources_update, called by an admin or user
\* context for a plan_id with no Plan row visible to the context, fail with
\* PlanNotFound before any mutation: the store is the store before the call
\* and the call has inserted no Resource row.
C9_exists_before_mutation ==
    [][\A t \in Threads :
        (/\ Called(t)
         /\ th'[t].op \in {"plan_update", "plan_resources_update"}
         /\ require_context(th'[t].ctx) = "ok"
         /\ th'[t].ctx.read_deleted \in {"no", "yes", "only"}
         /\ ~PlanVisible(th'[t].ctx, th'[t].id))
        => /\ th'[t].pc = "done"
           /\ th'[t].exc = "PlanNotFound"
           /\ store' = store
           /\ th'[t].ins = {}]_vars

\* plan_resources_update of a soft-deleted Plan that still has Resource rows
\* has failed with PlanNotFound under the default visibility
C9_witness ==
    \E t \in Threads :
        /\ th[t].pc = "done"
        /\ th[t].op = "plan_resources_update"
        /\ th[t].ctx.read_deleted = "no"
        /\ th[t].res # <<>>
        /\ th[t].exc = "PlanNotFound"
        /\ \E p \in plans : p.id = th[t].id /\ p.deleted
        /\ \E r \in resources : r.plan_id = th[t].id

\* C10: whatever the interleaving of get_engine, get_session and
\* dispose_engine, at most one EngineFacade is ever constructed, by the first
\* thread that entered the lock; _FACADE once set is never replaced or reset,
\* and every caller works on that one instance.
C10_facade_once ==
    [][/\ built' <= 1
       /\ FACADE # 0 => FACADE' = FACADE
       /\ builder' \subseteq {first'}
       /\ \A f \in FacadeThreads :
            fth'[f].pc = "use" => fth'[f].facade = FACADE' /\ FACADE' = 1]_vars

\* two threads that called different functions hold the one instance while a
\* third waits for the lock
C10_witness ==
    /\ built = 1
    /\ \E f, g, h \in FacadeThreads :
        /\ fth[f].pc = "use" /\ fth[g].pc = "use"
        /\ fth[f].op # fth[g].op
        /\ fth[f].facade = 1 /\ fth[g].facade = 1
        /\ fth[h].pc = "lock"

RetriedOps == {"plan_destroy", "plan_resources_update"}

\* thread t is inside the unit of work of an operation _retry_on_deadlock wraps
InRetried(t) ==
    /\ th[t].op \in RetriedOps
    /\ th[t].pc \in {"destroy_plan", "destroy_resources",
                     "resources_softdel", "resources_insert"}

\* C11: a DBDeadlock raised by the unit of work of plan_destroy or
\* plan_resources_update is logged and the unit of work is executed again
\* from its first statement, so no call of them ends with DBDeadlock; a
\* failure other than a deadlock ends the call in the step it is raised,
\* with no further log line; and, the deadlocks being finitely many, a call
\* that entered the unit of work ends.
C11_deadlock_retried ==
    /\ [](\A t \in Threads :
            (th[t].pc = "done" /\ th[t].op \in RetriedOps)
            => th[t].exc # "DBDeadlock")
    /\ [][\A t \in Threads :
            InRetried(t)
            => /\ th'[t].retries # th[t].retries
                    => /\ th'[t].retries = th[t].retries + 1
                       /\ th'[t].pc \in {"destroy_plan", "resources_softdel"}
                       /\ th'[t].pend_plans = {}
                       /\ store' = store
               /\ (th'[t].pc = "done" /\ th'[t].exc # "ok")
                    => th'[t].retries = th[t].retries]_vars
    /\ \A t \in {Caller} : InRetried(t) ~> th[t].pc = "done"

\* plan_destroy has deadlocked, was executed again and succeeded
C11_witness ==
    \E t \in Threads :
        /\ th[t].pc = "done"
        /\ th[t].op = "plan_destroy"
        /\ th[t].retries > 0
        /\ th[t].exc = "ok"
        /\ \E p \in plans : p.id = th[t].id /\ p.deleted

BoundedRetryOps ==
    {"trigger_update", "scheduled_operation_update",
     "scheduled_operation_state_update", "scheduled_operation_log_update"}

\* C12: an update operation under wrap_db_retry(max_retries=5) always ends:
\* it is executed again after a DBDeadlock at most 5 times, a sixth
\* DBDeadlock is raised to the caller, and no attempt that deadlocked has
\* changed a row.
C12_bounded_retry ==
    /\ [](\A t \in Threads :
            th[t].op \in BoundedRetryOps
            => /\ th[t].retries <= max_retries
               /\ (th[t].pc = "done" /\ th[t].exc = "DBDeadlock")
                    => th[t].retries = max_retries)
    /\ [][\A t \in Threads :
            (/\ th[t].pc = "entity_update"
             /\ \/ th'[t].retries # th[t].retries
                \/ th'[t].exc = "DBDeadlock")
            => entities' = entities]_vars
    /\ \A t \in {EntityCaller} : th[t].pc = "entity_update" ~> th[t].pc = "done"

\* scheduled_operation_state_update has deadlocked six times and has raised
\* DBDeadlock; the row it was to change is as it was created
C12_witness ==
    \E t \in Threads :
        /\ th[t].pc = "done"
        /\ th[t].op = "scheduled_operation_state_update"
        /\ th[t].exc = "DBDeadlock"
        /\ th[t].retries = max_retries
        /\ th[t].val = "v1"
        /\ \E r \in entities :
              r.kind = "ScheduledOperationState" /\ r.id = th[t].id /\ r.val = "v0"

UpdateOps == BoundedRetryOps \cup {"service_update", "plan_update"}

NotFounds == {NotFound(kind) : kind \in Kinds} \cup {"PlanNotFound"}

\* C13: an update operation fetches the row again inside the transaction in
\* which it changes it: when it ends with the entity's NotFound it has
\* written nothing (the store is the store before the step and no row the
\* call inserted is committed), and whenever it ends it has neither created
\* a Plan or entity row nor turned a deleted row into a live one.
C13_update_refetches ==
    [][\A t \in Threads :
        (th[t].pc # "done" /\ th'[t].pc = "done" /\ th'[t].op \in UpdateOps)
        => /\ th'[t].exc \in NotFounds
                => /\ store' = store
                   /\ th'[t].ins = {}
           /\ \A q \in plans' :
                \E p \in plans : p.id = q.id /\ (p.deleted => q.deleted)
           /\ \A q \in entities' :
                \E r \in entities :
                    r.kind = q.kind /\ r.id = q.id /\ (r.deleted => q.deleted)]_vars

\* the public operations decorated with @require_context
ContextOps ==
    {"get_by_id", "plan_create", "plan_get", "plan_update", "plan_resources_update"}

\* C14: called with a present context, an operation gated by require_context
\* runs its body (it opens a session) exactly when the context is admin, or
\* is not admin and has a non-empty user_id and a non-empty project_id; with
\* any other present context it ends at once with NotAuthorized, having
\* opened no session, issued no statement and left the store as it was.
C14_require_context ==
    [][\A t \in Threads :
        (Called(t) /\ th'[t].op \in ContextOps /\ th'[t].ctx.present)
        => LET context == th'[t].ctx
               allowed == \/ context.is_admin
                          \/ /\ ~context.is_admin
                             /\ context.user_id # ""
                             /\ context.project_id # ""
           IN  /\ allowed
                    => th'[t].exc # "NotAuthorized" /\ th'[t].sessions >= 1
               /\ ~allowed
                    => /\ th'[t].pc = "done"
                       /\ th'[t].exc = "NotAuthorized"
                       /\ th'[t].sessions = 0
                       /\ th'[t].statements = 0
                       /\ store' = store]_vars

\* plan_update of an existing Plan, called with a context that has a
\* project_id but no user_id, has been refused
C14_witness ==
    \E t \in Threads :
        /\ th[t].pc = "done"
        /\ th[t].op = "plan_update"
        /\ ~th[t].ctx.is_admin
        /\ th[t].ctx.user_id = ""
        /\ th[t].ctx.project_id = "A"
        /\ th[t].exc = "NotAuthorized"
        /\ \E p \in plans : p.id = th[t].id /\ ~p.deleted /\ p.project_id = "A"

\* C15: model_query called with a visibility value that is none of "no",
\* "yes", "only", given as the read_deleted override or, without an override,
\* as the context's read_deleted, fails with the 'Unrecognized read_deleted
\* value' Exception and selects no row.
C15_unrecognized_fails ==
    mq.called =>
        LET flag == IF mq.read_deleted # None THEN mq.read_deleted
                    ELSE mq.context.read_deleted
        IN  flag \notin {"no", "yes", "only"}
            => mq.exc = "Exception" /\ mq.rows = {}

CreateOps ==
    {"service_create", "trigger_create", "scheduled_operation_create",
     "scheduled_operation_state_create", "scheduled_operation_log_create"}

\* the get operation of the entity a create operation belongs to
GetOfCreate(op, context, id) ==
    CASE op = "service_create" -> _service_get(context, id)
      [] op = "trigger_create" -> _trigger_get(context, id)
      [] op = "scheduled_operation_create" -> _scheduled_operation_get(context, id)
      [] op = "scheduled_operation_state_create"
            -> _scheduled_operation_state_get(context, id)
      [] op = "scheduled_operation_log_create"
            -> _scheduled_operation_log_get(context, id)

\* the contexts that may call the get operation of the entity
GetContexts(op) ==
    {context \in Contexts :
        /\ context.present
        /\ context.read_deleted \in {"no", "yes", "only"}
        /\ op = "service_create" => require_admin_context(context) = "ok"}

\* C16: after a create that succeeded with values V, a get of the same id by
\* any context that may call get returns the row with the fields V and
\* deleted = false; and a plan_create that has inserted the Plan row returns
\* that row, with the id it was given or generated, for every context that
\* passes require_context: it does not fail after the insert.
C16_get_after_create ==
    [][\A t \in Threads :
        (th[t].pc # "done" /\ th'[t].pc = "done")
        => /\ \A op \in CreateOps, id \in EntityIds :
                (th'[t].op = op /\ th'[t].id = id /\ th'[t].exc = "ok")
                => \A context \in GetContexts(op) :
                      /\ (GetOfCreate(op, context, id).exc)' = "ok"
                      /\ (GetOfCreate(op, context, id).out)' = th'[t].out
                      /\ \A r \in th'[t].out : r.id = id /\ ~r.deleted
           /\ (th'[t].op = "plan_create" /\ th[t].pc = "create_reread")
                => /\ th'[t].exc = "ok"
                   /\ th'[t].out = {PlanRow(th'[t].id, th'[t].val, "v0")}]_vars

\* the get operation of each entity kind, None for a class that has none
KindGet(model) ==
    CASE model = "Service" -> "service_get"
      [] model = "Trigger" -> "trigger_get"
      [] model = "ScheduledOperation" -> "scheduled_operation_get"
      [] model = "ScheduledOperationState" -> "scheduled_operation_state_get"
      [] model = "ScheduledOperationLog" -> "scheduled_operation_log_get"
      [] model = "Plan" -> "plan_get"
      [] OTHER -> None

\* C17, as the specification states it: get_by_id called with a present
\* context returns or raises what the get operation of the kind returns or
\* raises for the same context and id; _get_get_method is called for a kind
\* only while the cache has no entry for it; and for a class with no get
\* operation the call fails with TypeError, which is no entity's NotFound.
C17_same_as_own_get ==
    [][\A t \in Threads :
        (Called(t) /\ th'[t].op = "get_by_id" /\ th'[t].ctx.present)
        => /\ th'[t].pc = "done"
           /\ KindGet(th'[t].val) # None
                => Result(th'[t])
                     = CallGet(KindGet(th'[t].val), th'[t].ctx, th'[t].id)
           /\ th'[t].k = 1 => _GET_METHODS[th'[t].val] = Absent
           /\ KindGet(th'[t].val) = None
                => th'[t].exc = "TypeError" /\ th'[t].exc \notin NotFounds]_vars

\* C17, amended: for a present context that is admin or a well-formed user
\* context get_by_id returns or raises what the get operation of the kind
\* returns or raises for the same context and id, and for any other present
\* context it fails with NotAuthorized and leaves the cache as it was; for
\* a kind with a get operation _get_get_method is called at the first such
\* call only and the cache then holds that operation; for a class with no
\* get operation _get_get_method is called at every such call and the call
\* fails with TypeError, which is no entity's NotFound.
C17_get_by_id_dispatch ==
    [][\A t \in Threads :
        (Called(t) /\ th'[t].op = "get_by_id" /\ th'[t].ctx.present)
        => LET context == th'[t].ctx
               allowed == \/ context.is_admin
                          \/ context.user_id # "" /\ context.project_id # ""
           IN  /\ th'[t].pc = "done"
               /\ ~allowed
                    => /\ th'[t].exc = "NotAuthorized"
                       /\ th'[t].k = 0
                       /\ _GET_METHODS' = _GET_METHODS
               /\ (allowed /\ KindGet(th'[t].val) # None)
                    => /\ Result(th'[t])
                             = CallGet(KindGet(th'[t].val), context, th'[t].id)
                       /\ th'[t].k = 1 <=> _GET_METHODS[th'[t].val] = Absent
                       /\ _GET_METHODS'[th'[t].val] = KindGet(th'[t].val)
               /\ (allowed /\ KindGet(th'[t].val) = None)
                    => /\ th'[t].exc = "TypeError"
                       /\ th'[t].exc \notin NotFounds
                       /\ th'[t].k = 1]_vars

\* get_by_id has returned the ScheduledOperationState row of an operation
\* through the cached scheduled_operation_state_get
C17_witness ==
    \E t \in Threads :
        /\ th[t].pc = "done"
        /\ th[t].op = "get_by_id"
        /\ th[t].val = "ScheduledOperationState"
        /\ th[t].k = 0
        /\ th[t].exc = "ok"
        /\ th[t].out # {}
        /\ th[t].out \subseteq entities
        /\ _GET_METHODS["ScheduledOperationState"] = "scheduled_operation_state_get"

\* C18: deleted_at of a Plan or Resource row is set once, in the step that
\* makes the row deleted: a live row has no deleted_at, and a row that is
\* deleted stays deleted and keeps its deleted_at in every later step.
C18_deleted_at_once ==
    [][/\ \A q \in plans' \cup resources' : q.deleted <=> q.deleted_at # 0
       /\ \A p \in plans :
            p.deleted
            => \E q \in plans' :
                  q.id = p.id /\ q.deleted /\ q.deleted_at = p.deleted_at
       /\ \A r \in resources :
            r.deleted
            => \E q \in resources' :
                  q.pk = r.pk /\ q.deleted /\ q.deleted_at = r.deleted_at]_vars

\* the ScheduledOperationState rows of an operation
StateRows(table, operation_id) ==
    {r \in table : r.kind = "ScheduledOperationState" /\ r.id = operation_id}

LiveResources(plan_id) ==
    {r \in resources : r.plan_id = plan_id /\ ~r.deleted}

\* C20: a plan_resources_update that was executed again after a DBDeadlock
\* ends successfully, and the live Resource rows of the Plan are then
\* exactly the resources the caller passed, each once.
C20_retry_reexecutable ==
    \A t \in Threads :
        (/\ th[t].pc = "done"
         /\ th[t].op = "plan_resources_update"
         /\ th[t].retries > 0)
        => /\ th[t].exc = "ok"
           /\ Cardinality(LiveResources(th[t].id)) = Len(th[t].res)
           /\ {r.resource_id : r \in LiveResources(th[t].id)}
                = {th[t].res[i] : i \in 1..Len(th[t].res)}

\* C21: in every reachable state, whatever the interleaving of plan_create,
\* plan_update, plan_resources_update and plan_destroy by concurrent callers,
\* every Resource row with deleted=false has a plan_id that names a Plan row
\* with deleted=false; a soft-deleted Plan never owns a live Resource
LivePlanIds == {p.id : p \in {x \in plans : ~x.deleted}}

C21_live_resource_has_live_plan ==
    \A r \in resources : ~r.deleted => r.plan_id \in LivePlanIds

\* C22: a non-admin user context of project A cannot change data of another
\* project: plan_update, plan_resources_update and plan_destroy, called with
\* it for a Plan whose project_id differs from A, fail with PlanNotFound or
\* AdminRequired, leave the Plan row and all Resource rows as they were, and
\* insert no Resource row
ProjectOps == {"plan_update", "plan_resources_update", "plan_destroy"}

C22_other_project_unchanged ==
    [][\A t \in Threads :
        (/\ Called(t)
         /\ th'[t].op \in ProjectOps
         /\ is_user_context(th'[t].ctx)
         /\ th'[t].ctx.read_deleted \in {"no", "yes", "only"}
         /\ \E p \in plans : /\ p.id = th'[t].id
                              /\ p.project_id # th'[t].ctx.project_id)
        => /\ th'[t].pc = "done"
           /\ th'[t].exc \in {"PlanNotFound", "AdminRequired"}
           /\ plans' = plans
           /\ resources' = resources
           /\ th'[t].ins = {}]_vars

\* plan_update with a resource list, called by a user of project A who reads
\* deleted rows too, has failed on a live Plan of project B that owns a live
\* Resource
C22_witness ==
    \E t \in Threads :
        /\ th[t].pc = "done"
        /\ th[t].op = "plan_update"
        /\ is_user_context(th[t].ctx)
        /\ th[t].ctx.read_deleted = "yes"
        /\ th[t].res # <<>>
        /\ th[t].exc = "PlanNotFound"
        /\ \E p \in plans : /\ p.id = th[t].id
                             /\ p.project_id # th[t].ctx.project_id
                             /\ ~p.deleted
                             /\ \E r \in resources : r.plan_id = p.id /\ ~r.deleted

====
